---- MODULE Spec2Model ----
(***************************************************************************)
(* Model of esp8266_artnet_dmx512.ino: the Art-Net -> DMX512 bridge.       *)
(*                                                                         *)
(* State: the global universe buffer (global), the configuration (config), *)
(* the millisecond clock and the scheduler timestamps, and what the two    *)
(* transports last put on the wire.  Operations: onDmxPacket (the Art-Net  *)
(* callback), outputSerial, outputI2S, loop and the web request handlers.  *)
(***************************************************************************)
EXTENDS Integers, Sequences, FiniteSets, TLC

VARIABLES
    config,       \* Config config: universe, channels, delay
    global,       \* the global universe buffer, i2s_data included
    uart_frame,   \* what the last outputSerial() put on Serial1, in order
    i2s_frame,    \* the buffer the last outputI2S() handed to i2s_write_buffer
    call,         \* the last handler invoked, with its arguments
    millis,       \* the value millis() returns now
    tic_loop,     \* long tic_loop
    tic_web,      \* long tic_web
    sched,        \* what the last loop() invocation observed and did
    fired,        \* millis() readings stored in tic_loop by the last two ticks
    npackets,     \* number of onDmxPacket calls so far (bounded)
    nloops,       \* number of loop() invocations so far (bounded)
    nweb,         \* number of web requests served so far (bounded)
    dma,          \* the transfer outputI2S queued: in flight or not, and whether
                  \* the last step touched the buffer of a transfer in flight
    flip          \* harness of flipByte: input, result, applications

vars == <<config, global, uart_frame, i2s_frame, call, millis, tic_loop,
          tic_web, sched, fired, npackets, nloops, nweb, dma, flip>>

----------------------------------------------------------------------------
(* Bounds of the model *)

MaxPackets == 2      \* onDmxPacket calls explored per behaviour
MaxLoops == 3        \* loop() invocations explored per behaviour
MaxWeb == 1          \* web requests served per behaviour
MaxFlips == 2        \* applications of flipByte in the flipByte harness

----------------------------------------------------------------------------
(* Program constants *)

DMX_CHANNELS == 512
MARK_WORDS == 10     \* words of mark_before_break
BREAK_WORDS == 2     \* words of space_for_break
WEB_GATE == 5000     \* ms without web activity before DMX is served
BREAK == 0 - 1       \* the event "sendBreak()" in a UART trace

Byte == 0..255

\* millis() - tic: unsigned long arithmetic (32 bit). Where the model keeps
\* the clock far below 2^31 ms, tic <= now and the unsigned difference is the
\* plain difference. Where millis() wraps (loopLive), a stamp 2^32 - k ms
\* old is kept as millis + k, and the difference is taken once now >= tic.
Elapsed(now, tic) == now - tic

\* MIN(x,y) of the sketch
MIN(x, y) == IF x < y THEN x ELSE y

----------------------------------------------------------------------------
(* flipByte: bit arithmetic on 8-bit operands *)

RECURSIVE BitAnd(_, _)
BitAnd(a, b) ==
    IF a = 0 \/ b = 0 THEN 0
    ELSE (a % 2) * (b % 2) + 2 * BitAnd(a \div 2, b \div 2)

RECURSIVE BitOr(_, _)
BitOr(a, b) ==
    IF a = 0 THEN b
    ELSE IF b = 0 THEN a
    ELSE (IF (a % 2) + (b % 2) > 0 THEN 1 ELSE 0) + 2 * BitOr(a \div 2, b \div 2)

Shr(c, n) == c \div (2 ^ n)
Shl(c, n) == c * (2 ^ n)
ToByte(x) == x % 256

\* a plausible slip: the nibble swap of the last stage is left out
flipByte_NoNibbleSwap(c) ==
    LET c1 == ToByte(BitOr(BitAnd(Shr(c, 1), 85), BitAnd(Shl(c, 1), 170)))
        c2 == ToByte(BitOr(BitAnd(Shr(c1, 2), 51), BitAnd(Shl(c1, 2), 204)))
    IN  c2

\* byte flipByte(byte c): every assignment to c and the return truncate to 8 bits
flipByte(c) ==
    LET c1 == ToByte(BitOr(BitAnd(Shr(c, 1), 85), BitAnd(Shl(c, 1), 170)))
        c2 == ToByte(BitOr(BitAnd(Shr(c1, 2), 51), BitAnd(Shl(c1, 2), 204)))
    IN  ToByte(BitOr(Shr(c2, 4), Shl(c2, 4)))

\* flipByte tabulated once over its whole domain (what onDmxPacket looks up)
flipByteTable == [b \in Byte |-> flipByte(b)]

----------------------------------------------------------------------------
(* The DMA transmission frame buffer *)

\* (hi << 8) | lo, stored in a uint16_t
I2SWord(hi, lo) == (hi * 256 + lo) % 65536
HiByte(w) == w \div 256
LoByte(w) == w % 256

\* initI2S(): memset 0, mark_before_break all ones, MAB, framing of every slot
initI2S ==
    [ mark_before_break |-> [i \in 0..(MARK_WORDS - 1) |-> 65535],
      space_for_break   |-> [i \in 0..(BREAK_WORDS - 1) |-> 0],
      mark_after_break  |-> 14,
      dmx_bytes         |-> [i \in 0..DMX_CHANNELS |->
                                IF i = DMX_CHANNELS THEN 255 ELSE 254] ]

\* the part of setup() that initialises the global universe buffer
setup_global ==
    [ universe |-> 0,
      sequence |-> 0,
      length   |-> 512,
      data     |-> [i \in 0..511 |-> 0],
      i2s_data |-> initI2S ]

----------------------------------------------------------------------------
(* onDmxPacket: the callback of every received ArtDmx packet.              *)
(* data is the packet's payload, a function on 0..length-1.                *)

\* a plausible slip: the universe filter accepts every packet
UniverseMatches_Always(cfg, universe) == TRUE

\* if (universe == config.universe)
UniverseMatches(cfg, universe) == universe = cfg.universe

\* a plausible slip: slots beyond the packet keep their previous value
I2SHi_KeepStale(old, i, length, data) ==
    IF i < length THEN flipByteTable[data[i]] ELSE HiByte(old)

\* a plausible slip: the channel value is stored without reversing its bits
I2SHi_NoFlip(old, i, length, data) ==
    IF i < length THEN data[i] ELSE 0

\* uint16_t hi = i < length ? flipByte(data[i]) : 0
\* (old is the symbol the slot held before)
I2SHi(old, i, length, data) ==
    IF i < length THEN flipByteTable[data[i]] ELSE 0

\* a plausible slip: the last slot is taken to be the packet's last channel
I2SLo_AtLength(i, even_length, length) ==
    IF i = length - 1 THEN 255 ELSE 254

\* uint16_t lo = i == (even_length-1) ? 0b0000000011111111 : 0b0000000011111110
I2SLo(i, even_length, length) ==
    IF i = even_length - 1 THEN 255 ELSE 254

\* for (int i = 0; i < even_length; i++) global.i2s_data.dmx_bytes[i + 1] = (hi << 8) | lo
FillDmxBytes(dmx_bytes, length, data) ==
    LET even_length == DMX_CHANNELS
    IN  [k \in DOMAIN dmx_bytes |->
            IF k = 0 \/ k > even_length THEN dmx_bytes[k]
            ELSE I2SWord(I2SHi(dmx_bytes[k], k - 1, length, data),
                         I2SLo(k - 1, even_length, length))]

\* a plausible slip: the stored sequence number counts the accepted packets
NewSequence_Count(old_sequence, sequence) == (old_sequence + 1) % 256

\* global.sequence = sequence
NewSequence(old_sequence, sequence) == sequence

\* a plausible slip: the length of every accepted packet is stored
NewLength_NoCheck(old_length, length) == length

\* a plausible slip: the length is only ever lowered
NewLength_OnlyLower(old_length, length) ==
    IF length < old_length THEN length ELSE old_length

\* a plausible slip: a full frame of 512 channels restores the length
NewLength_Inclusive(old_length, length) ==
    IF length <= 512 THEN length ELSE old_length

\* if (length < 512) global.length = length
NewLength(old_length, length) ==
    IF length < 512 THEN length ELSE old_length

\* a plausible slip: the copy starts at channel 2
CopyData_OffByOne(old_data, len, data) ==
    [i \in DOMAIN old_data |-> IF 0 < i /\ i < len THEN data[i] ELSE old_data[i]]

\* for (int i = 0; i < global.length; i++) global.data[i] = data[i]
CopyData(old_data, len, data) ==
    [i \in DOMAIN old_data |-> IF i < len THEN data[i] ELSE old_data[i]]

\* a plausible slip: the copy loop runs to the length of the packet
CopyCount_PacketLength(g_length, length) == length

\* for (int i = 0; i < global.length; i++): the bound of the copy loop, where
\* g_length is global.length after the assignment before the loop
CopyCount(g_length, length) == g_length

\* the highest index of a loop for (int i = 0; i < n; i++); -1 if it never runs
LastIndex(n) == n - 1

\* no index touched
NoAccess ==
    [i2s_read_last |-> 0 - 1, copy_read_last |-> 0 - 1,
     data_write_last |-> 0 - 1, dmx_write_first |-> 1, dmx_write_last |-> 0]

\* the indices onDmxPacket touches: data[i] is read in the I2S loop for
\* i < even_length with i < length, and in the copy loop; global.data[i] is
\* written in the copy loop; dmx_bytes[i + 1] is written for i < even_length
PacketAccess(g_length, cfg, universe, length) ==
    IF UniverseMatches(cfg, universe)
    THEN LET even_length == DMX_CHANNELS
             n == CopyCount(NewLength(g_length, length), length)
         IN  [i2s_read_last   |-> LastIndex(MIN(length, even_length)),
              copy_read_last  |-> LastIndex(n),
              data_write_last |-> LastIndex(n),
              dmx_write_first |-> 0 + 1,
              dmx_write_last  |-> LastIndex(even_length) + 1]
    ELSE NoAccess

\* void onDmxPacket(uint16_t universe, uint16_t length, uint8_t sequence,
\*                  uint8_t *data): the new value of global
onDmxPacket(g, cfg, universe, length, sequence, data) ==
    IF UniverseMatches(cfg, universe)
    THEN LET len == NewLength(g.length, length)
         IN  [ universe |-> universe,
               sequence |-> NewSequence(g.sequence, sequence),
               length   |-> len,
               data     |-> CopyData(g.data, CopyCount(len, length), data),
               i2s_data |-> [g.i2s_data EXCEPT
                               !.dmx_bytes = FillDmxBytes(@, length, data)] ]
    ELSE g

----------------------------------------------------------------------------
(* The transports *)

\* a plausible slip: the configured channel count is ignored
SerialCount_IgnoreChannels(g, cfg) == g.length

\* MIN(global.length, config.channels): the bound of outputSerial's loop
SerialCount(g, cfg) == MIN(g.length, cfg.channels)

\* a plausible slip: the start code is left out
outputSerialFrame_NoStartCode(g, cfg) ==
    <<BREAK>> \o [k \in 1..SerialCount(g, cfg) |-> g.data[k - 1]]

\* outputSerial(): sendBreak(); Serial1.write(0); then the channel bytes
outputSerialFrame(g, cfg) ==
    <<BREAK, 0>> \o [k \in 1..SerialCount(g, cfg) |-> g.data[k - 1]]

\* outputI2S(): i2s_write_buffer((int16_t*) &global.i2s_data, frames)
\* queues the whole of global.i2s_data
outputI2SFrame(g) == g.i2s_data

----------------------------------------------------------------------------
(* Inputs *)

Universes == {0, 1}
Lengths == {0, 3, 512, 513}
SequenceNumbers == {7}
Patterns == {1, 2}

\* payloads: pattern 1 is 1, 2, 3, ...; pattern 2 starts at 0x80
PacketData(p, length) ==
    [i \in 0..(length - 1) |->
        IF p = 1 THEN (i + 1) % 256 ELSE (128 + 5 * i) % 256]

Configs ==
    [universe : {1}, channels : {2, 3, 512}, delay : {25}]

NoCall ==
    [op |-> "none", universe |-> 0, length |-> 0, sequence |-> 0, pattern |-> 0,
     repeat |-> FALSE, emitted |-> FALSE, prev_length |-> 512,
     acc_pattern |-> 0, acc_length |-> 0,
     access |-> NoAccess, serial_read_last |-> 0 - 1]
NoSched ==
    [gate_open |-> FALSE, elapsed |-> 0, read |-> 0, uart |-> 0, i2s |-> 0,
     at |-> 0, since_prev |-> 0, prev_uart |-> 0,
     web |-> FALSE, connected |-> TRUE, recv |-> FALSE,
     tick_start |-> 0, tick_end |-> 0,
     restart |-> FALSE, tick_channels |-> 0]
NoDma == [busy |-> FALSE, hazard |-> "none"]

\* the call repeats the arguments of the call before it
SameCall(c, universe, length, sequence, p) ==
    /\ c.op = "onDmxPacket"
    /\ c.universe = universe
    /\ c.length = length
    /\ c.sequence = sequence
    /\ c.pattern = p

----------------------------------------------------------------------------
(* State after setup() *)

InitCommon ==
    /\ global = setup_global
    /\ uart_frame = <<>>
    /\ i2s_frame = initI2S
    /\ call = NoCall
    /\ tic_loop = millis
    /\ tic_web = 0
    /\ sched = NoSched
    /\ fired = <<>>
    /\ npackets = 0
    /\ nloops = 0
    /\ nweb = 0
    /\ dma = NoDma

\* the handlers called directly, in any order
InitCalls ==
    /\ config \in Configs
    /\ millis = 5000
    /\ flip = [c |-> 0, r |-> 0, n |-> 0]
    /\ InitCommon

\* the record of a call of onDmxPacket: its arguments, whether it repeats the
\* call before it, global.length before the call, the payload (pattern and
\* length) of the most recent call whose universe was config.universe, and
\* the indices the call touched; no outputSerial() has followed it yet
CallRecord(universe, length, sequence, p) ==
    [op |-> "onDmxPacket", universe |-> universe, length |-> length,
     sequence |-> sequence, pattern |-> p,
     repeat |-> SameCall(call, universe, length, sequence, p),
     emitted |-> FALSE, prev_length |-> global.length,
     acc_pattern |-> IF universe = config.universe THEN p
                     ELSE call.acc_pattern,
     acc_length |-> IF universe = config.universe THEN length
                    ELSE call.acc_length,
     access |-> PacketAccess(global.length, config, universe, length),
     serial_read_last |-> 0 - 1]

\* void onDmxPacket(...), invoked by the Art-Net receiver
DmxPacket(universe, length, sequence, p) ==
    /\ npackets < MaxPackets
    /\ npackets' = npackets + 1
    /\ global' = onDmxPacket(global, config, universe, length, sequence,
                             PacketData(p, length))
    /\ call' = CallRecord(universe, length, sequence, p)
    /\ UNCHANGED <<config, uart_frame, i2s_frame, millis, tic_loop, tic_web,
                   sched, fired, nloops, nweb, flip>>

\* a plausible slip: the transport consumes the buffer it has sent
AfterOutput_Consume(g) == [g EXCEPT !.data = [i \in DOMAIN g.data |-> 0]]

\* global after outputSerial() or outputI2S(): neither writes to it
AfterOutput(g) == g

\* void outputSerial()
OutputSerial ==
    /\ uart_frame' = outputSerialFrame(global, config)
    /\ global' = AfterOutput(global)
    /\ call' = [call EXCEPT !.emitted = TRUE,
                            !.serial_read_last =
                                LastIndex(SerialCount(global, config))]
    /\ UNCHANGED <<config, i2s_frame, millis, tic_loop, tic_web,
                   sched, fired, npackets, nloops, nweb, flip>>

\* void outputI2S()
OutputI2S ==
    /\ i2s_frame' = outputI2SFrame(global)
    /\ global' = AfterOutput(global)
    /\ UNCHANGED <<config, uart_frame, call, millis, tic_loop, tic_web,
                   sched, fired, npackets, nloops, nweb, flip>>

\* the handlers alone; the progress of the DMA transfer is not followed
NextCalls ==
    \/ /\ \E u \in Universes, len \in Lengths, s \in SequenceNumbers,
              p \in Patterns : DmxPacket(u, len, s, p)
       /\ UNCHANGED dma
    \/ OutputSerial /\ UNCHANGED dma
    \/ OutputI2S /\ UNCHANGED dma

SpecCalls == InitCalls /\ [][NextCalls]_vars

\* the handlers called directly, with a configured channel count beyond the
\* 512 bytes of global.data
AccessConfigs == [universe : {1}, channels : {3, 600}, delay : {25}]

InitAccess ==
    /\ config \in AccessConfigs
    /\ millis = 5000
    /\ flip = [c |-> 0, r |-> 0, n |-> 0]
    /\ InitCommon

SpecAccess == InitAccess /\ [][NextCalls]_vars

----------------------------------------------------------------------------
(* The handlers together with the DMA transfer that outputI2S() queues:    *)
(* i2s_write_buffer() returns when the transfer is queued, the transfer    *)
(* reads global.i2s_data until it completes on its own.                    *)
(* dma.busy: a queued transfer has not completed; dma.hazard: what the     *)
(* last handler did to a buffer that was still in flight.                  *)

\* onDmxPacket writes global.i2s_data.dmx_bytes without looking at the transfer
DmaPacket(universe, length, sequence, p) ==
    /\ DmxPacket(universe, length, sequence, p)
    /\ dma' = [dma EXCEPT !.hazard =
                  IF dma.busy /\ UniverseMatches(config, universe)
                  THEN "write" ELSE "none"]

\* outputSerial() does not touch the I2S buffer
DmaOutputSerial == OutputSerial /\ UNCHANGED dma

\* outputI2S() queues global.i2s_data without looking at the transfer
DmaOutputI2S ==
    /\ OutputI2S
    /\ dma' = [busy |-> TRUE,
               hazard |-> IF dma.busy THEN "rearm" ELSE "none"]

\* the hardware finishes the queued transfer
DmaComplete ==
    /\ dma.busy
    /\ dma' = NoDma
    /\ UNCHANGED <<config, global, uart_frame, i2s_frame, call, millis,
                   tic_loop, tic_web, sched, fired, npackets, nloops, nweb,
                   flip>>

NextDma ==
    \/ \E u \in Universes, len \in Lengths, s \in SequenceNumbers,
           p \in Patterns : DmaPacket(u, len, s, p)
    \/ DmaOutputSerial
    \/ DmaOutputI2S
    \/ DmaComplete

SpecDma == InitCalls /\ [][NextDma]_vars

----------------------------------------------------------------------------
(* loop(): the web server, the web-activity gate, the Art-Net receiver and *)
(* the output scheduler                                                    *)

Gaps == {10, 15, 5000}         \* ms between the return of loop() and its next call
BootTimes == {1000}            \* millis() when setup() returns
LoopLengths == {3}
\* the configurations PUT or POST /json can store, and the one initialConfig()
\* sets (in setup(), where loadConfig() finds nothing at the first boot, and
\* in /defaults)
LoopConfigs == [universe : {1}, channels : {3, 512}, delay : {25}]
BootConfigs == [universe : {1}, channels : {512}, delay : {25}]

\* what handleClient() serves in one invocation of loop(): nothing (or a
\* request whose handler does not touch tic_web), a page or status request,
\* PUT or POST /json, GET /defaults, GET /reconnect, GET /reset
WebRequests == {"none", "page", "json", "defaults", "reconnect", "reset"}
PortalTimes == {0, 3000}       \* ms wifiManager.startConfigPortal() blocks
HANDLER_DELAY == 2000          \* delay(2000) in /defaults, /reconnect, /reset

\* tic_web = millis() is the first statement of every handler in initServer()
SetsTicWeb(web) == web # "none"

\* ms the handler keeps handleClient() busy: delay(2000), and for /reconnect
\* the blocking configuration portal
HandlerDelay(web, portal) ==
    IF web \in {"defaults", "reset"} THEN HANDLER_DELAY
    ELSE IF web = "reconnect" THEN HANDLER_DELAY + portal
    ELSE 0

\* the handler ends with ESP.restart()
Restarts(web) == web \in {"defaults", "reset"}

\* config after the handler: handleJSON() takes it from the request,
\* initialConfig() sets the defaults; newcfg is what they store
ConfigAfter(cfg, web, newcfg) ==
    IF web \in {"json", "defaults"} THEN newcfg ELSE cfg

\* a plausible slip: missed ticks are made up, one per elapsed delay
TicksDue_CatchUp(now, tic, delay) == Elapsed(now, tic) \div delay

\* a plausible slip: the comparison is made against the wrong operand
TicksDue_NoDelay(now, tic, delay) ==
    IF Elapsed(now, tic) > 0 THEN 1 ELSE 0

\* if ((millis() - tic_loop) > config.delay): how often the body of the
\* scheduler runs in one invocation of loop()
TicksDue(now, tic, delay) ==
    IF Elapsed(now, tic) > delay THEN 1 ELSE 0

\* a plausible slip: the two branches of the web gate are exchanged
GateOpen_Inverted(now, web) == Elapsed(now, web) < WEB_GATE

\* a plausible slip: the scheduler is not gated by web activity
GateOpen_Always(now, web) == TRUE

\* if ((millis() - tic_web) < 5000) ... else: the else branch is taken
GateOpen(now, web) == ~(Elapsed(now, web) < WEB_GATE)

\* a plausible slip: the timestamp is taken when the transports have returned
TicStamp_AfterTransports(start, end) == end

\* tic_loop = millis() is the first statement of the scheduler's body, before
\* outputSerial() and outputI2S(): start and end are the millis() readings
\* before and after the transports
TicStamp(start, end) == start

UART_BYTE_US == 44             \* 11 bits of 4 us: Serial1 at 250000 baud, 8N2

\* ms outputSerial() is busy writing the frame to Serial1 (the break itself
\* takes less than a millisecond); outputI2S() only queues its buffer
TransportTime(frame) == ((Len(frame) - 1) * UART_BYTE_US) \div 1000

\* the value a handler stores in tic_web: millis() when handleClient() runs
WebStamp(tic_w, d, web) == IF SetsTicWeb(web) THEN millis + d ELSE tic_w

\* millis() when loop() reaches the web gate: after handleClient() and, without
\* WiFi, singleRed(); delay(10); there is no return in standalone mode
GateTime(d, web, portal, connected) ==
    millis + d + HandlerDelay(web, portal) + (IF connected THEN 0 ELSE 10)

\* loop() down to the condition of the scheduler: the request served, the
\* configuration and tic_web its handler leaves, millis() at the web gate,
\* the branch taken there and whether the scheduler's body runs
loopSchedule(tic_l, tic_w, d, web, portal, newcfg, connected) ==
    LET web_t == WebStamp(tic_w, d, web)
        cfg   == ConfigAfter(config, web, newcfg)
        t1    == GateTime(d, web, portal, connected)
        open  == GateOpen(t1, web_t)
    IN  [ config    |-> cfg,
          tic_web   |-> web_t,
          at        |-> t1,
          gate_open |-> open,
          ticks     |-> IF open THEN TicksDue(t1, tic_l, cfg.delay) ELSE 0 ]

\* void loop(): d ms after the previous invocation returned; web: the request
\* handleClient() serves, portal and newcfg: how long its portal blocks and
\* the configuration it stores; connected: WiFi.status() == WL_CONNECTED;
\* recv: artnet.read() finds an ArtDmx packet and calls onDmxPacket.
\* The values of the variables when loop() returns.
loopResult(tic_l, tic_w, d, web, portal, newcfg, connected, recv, universe, length, sequence, p) ==
    LET s     == loopSchedule(tic_l, tic_w, d, web, portal, newcfg, connected)
        web_t == s.tic_web
        cfg   == s.config
        t1    == s.at
        open  == s.gate_open
        g1    == IF recv
                 THEN onDmxPacket(global, cfg, universe, length, sequence,
                                  PacketData(p, length))
                 ELSE global
        n     == s.ticks
        t2    == IF n > 0
                 THEN t1 + TransportTime(outputSerialFrame(g1, cfg))
                 ELSE t1
    IN  [ config     |-> cfg,
          tic_web    |-> web_t,
          global     |-> IF n > 0 THEN AfterOutput(g1) ELSE g1,
          \* delay(25) while the gate is closed
          millis     |-> IF open THEN t2 ELSE t1 + 25,
          tic_loop   |-> IF n > 0 THEN TicStamp(t1, t2) ELSE tic_l,
          uart_frame |-> IF n > 0 THEN outputSerialFrame(g1, cfg) ELSE uart_frame,
          i2s_frame  |-> IF n > 0 THEN outputI2SFrame(g1) ELSE i2s_frame,
          call       |-> IF recv
                         THEN [CallRecord(universe, length, sequence, p)
                                  EXCEPT !.emitted = n > 0,
                                         !.serial_read_last =
                                             IF n > 0
                                             THEN LastIndex(SerialCount(g1, cfg))
                                             ELSE @]
                         ELSE [call EXCEPT !.emitted = @ \/ n > 0,
                                           !.serial_read_last =
                                               IF n > 0
                                               THEN LastIndex(SerialCount(g1, cfg))
                                               ELSE @],
          sched      |-> [gate_open |-> open, elapsed |-> Elapsed(t1, tic_l),
                          read |-> IF open THEN 1 ELSE 0, uart |-> n, i2s |-> n,
                          at |-> t1,
                          since_prev |-> IF sched = NoSched THEN 0
                                         ELSE Elapsed(t1, sched.at),
                          prev_uart |-> sched.uart,
                          web |-> SetsTicWeb(web), connected |-> connected,
                          recv |-> recv,
                          tick_start |-> IF n > 0 THEN t1 ELSE sched.tick_start,
                          tick_end |-> IF n > 0 THEN t2 ELSE sched.tick_end,
                          restart |-> Restarts(web),
                          tick_channels |-> IF n > 0 THEN cfg.channels
                                            ELSE sched.tick_channels],
          fired      |-> IF n > 0
                         THEN (IF fired = <<>> THEN <<t1>>
                               ELSE <<fired[Len(fired)], t1>>)
                         ELSE fired ]

\* void loop(), one invocation; it is not invoked again once a handler has
\* called ESP.restart()
loop(d, web, portal, newcfg, connected, recv, universe, length, sequence, p) ==
    /\ ~sched.restart
    /\ nloops < MaxLoops
    /\ recv => npackets < MaxPackets
    /\ SetsTicWeb(web) => nweb < MaxWeb
    /\ recv => GateOpen(GateTime(d, web, portal, connected),
                        WebStamp(tic_web, d, web))
    /\ \E r \in {loopResult(tic_loop, tic_web, d, web, portal, newcfg,
                             connected, recv, universe, length, sequence, p)} :
        /\ config' = r.config
        /\ nloops' = nloops + 1
        /\ npackets' = IF recv THEN npackets + 1 ELSE npackets
        /\ nweb' = IF SetsTicWeb(web) THEN nweb + 1 ELSE nweb
        /\ tic_web' = r.tic_web
        /\ global' = r.global
        /\ millis' = r.millis
        /\ tic_loop' = r.tic_loop
        /\ uart_frame' = r.uart_frame
        /\ i2s_frame' = r.i2s_frame
        /\ call' = r.call
        /\ sched' = r.sched
        /\ fired' = r.fired
        /\ UNCHANGED <<dma, flip>>

\* ESP.restart(): the device reboots and setup() runs again; loadConfig()
\* reads the configuration back as the handlers saved it, millis() starts anew
Restart ==
    /\ sched.restart
    /\ config' = config
    /\ millis' \in BootTimes
    /\ global' = setup_global
    /\ uart_frame' = <<>>
    /\ i2s_frame' = initI2S
    /\ call' = NoCall
    /\ tic_loop' = millis'
    /\ tic_web' = 0
    /\ sched' = NoSched
    /\ fired' = <<>>
    /\ UNCHANGED <<npackets, nloops, nweb, dma, flip>>

\* the inputs of one invocation of loop() that only some requests use: how
\* long the portal of /reconnect blocks, what /json and /defaults store
PortalsOf(web) == IF web = "reconnect" THEN PortalTimes ELSE {0}
ConfigsOf(web, configs) ==
    IF web = "json" THEN configs
    ELSE IF web = "defaults" THEN BootConfigs
    ELSE {config}

Init ==
    /\ config \in BootConfigs
    /\ millis \in BootTimes
    /\ flip = [c |-> 0, r |-> 0, n |-> 0]
    /\ InitCommon

Next ==
    \/ \E d \in Gaps, web \in WebRequests, recv \in BOOLEAN,
          len \in LoopLengths :
           \E portal \in PortalsOf(web), newcfg \in ConfigsOf(web, LoopConfigs) :
               loop(d, web, portal, newcfg, TRUE, recv, config.universe,
                    len, 7, 1)
    \/ Restart

Spec == Init /\ [][Next]_vars

----------------------------------------------------------------------------
(* loop() invoked for ever. loop() looks at millis() only through the      *)
(* unsigned 32 bit differences millis() - tic_loop and millis() - tic_web, *)
(* and compares them with config.delay and 5000. Each step stores the      *)
(* clock shifted to LiveBase, keeping millis() modulo LiveSlot, and stores *)
(* each difference exactly below its cap and modulo LiveSlot from the cap  *)
(* on. LiveSlot divides 2^32: a difference stored as e >= cap stands for   *)
(* e, e + LiveSlot, e + 2 * LiveSlot, ... below 2^32, and the next         *)
(* invocation finds it either still beyond its threshold or starting over  *)
(* from 0, lead ms after the previous return, for every lead with          *)
(* e + lead a multiple of LiveSlot (as 2^32 is): millis() has then passed  *)
(* the stamp again (every 2^32 ms, 49.7 days). A stored difference may     *)
(* start over as soon as it has reached its cap, the difference of the     *)
(* code only after 2^32 ms: the step has every behaviour of the code.      *)
(* loop() is entered when millis() is a multiple of LiveSlot. The step     *)
(* counts neither invocations, packets nor requests and keeps, of what     *)
(* the invocation did, only what it served and whether it fired. After a   *)
(* restart the clock is the one setup() leaves.                            *)

LiveSlot == 4096               \* ms; loop() is entered at multiples of it
LiveSlots == {1, 2}            \* slots from the last one begun to the next entry
LiveDelays == {25, 5000}       \* config.delay as requests can store it
LiveConfigs == [universe : {1}, channels : {512}, delay : LiveDelays]

\* the largest config.delay: beyond it every comparison with a delay is settled
LiveMaxDelay == CHOOSE m \in LiveDelays : \A x \in LiveDelays : x <= m
LiveMaxSlots == CHOOSE m \in LiveSlots : \A x \in LiveSlots : x <= m

\* the caps of the stored differences millis() - tic_web, millis() - tic_loop:
\* beyond WEB_GATE and every config.delay, and a difference that started over
\* is followed exactly for five slots
LiveWebCap == 5 * LiveSlot
LiveLoopCap == 5 * LiveSlot
LiveBase == 6 * LiveSlot       \* the stored value of millis(), modulo LiveSlot

\* ms from now to the entry of loop(), slots slots after the slot now running
LiveGap(slots) == slots * LiveSlot - (millis % LiveSlot)

\* a difference as it is stored
Stored(e, cap) == IF e < cap THEN e ELSE cap + ((e - cap) % LiveSlot)

\* the choices for a stored difference e: 0, it is not found to start over;
\* w > 0, it starts over Lead(e, w) ms from now
WrapsOf(e, cap) == IF e >= cap THEN 0..(2 * LiveMaxSlots + 1) ELSE {0}
Lead(e, w) ==
    IF w = 0 THEN 0 ELSE (LiveSlot - (e % LiveSlot)) + (w - 1) * LiveSlot

\* the stamp as millis() - tic sees it at time t: the stored one, or, once
\* the difference has started over, the time at which it did
StampSeen(tic, lead, t) ==
    IF lead > 0 /\ millis + lead <= t THEN millis + lead ELSE tic

loopLive(w_l, w_w, slots, web, portal, newcfg, connected, recv, universe, length, sequence, p) ==
    /\ ~sched.restart
    \* a stamp a handler writes in this invocation does not start over
    /\ w_w > 0 => ~SetsTicWeb(web)
    /\ \E d \in {LiveGap(slots)},
          lead_l \in {Lead(Elapsed(millis, tic_loop), w_l)},
          lead_w \in {Lead(Elapsed(millis, tic_web), w_w)} :
        \E t1 \in {GateTime(d, web, portal, connected)} :
        \E tic_l \in {StampSeen(tic_loop, lead_l, t1)},
           tic_w \in {StampSeen(tic_web, lead_w, t1)} :
        \* loop() returns within a slot of reaching the gate
        /\ millis + lead_w <= t1 + LiveSlot
        /\ millis + lead_l <= t1 + LiveSlot
        /\ recv => GateOpen(t1, WebStamp(tic_w, d, web))
        /\ \E s \in {loopSchedule(tic_l, tic_w, d, web, portal, newcfg,
                                   connected)} :
            \* a stamp the scheduler writes does not start over
            /\ s.ticks > 0 => millis + lead_l <= t1
            /\ config' = s.config
            /\ sched' = [NoSched EXCEPT !.gate_open = s.gate_open,
                                        !.read = IF s.gate_open THEN 1 ELSE 0,
                                        !.uart = s.ticks,
                                        !.i2s = s.ticks,
                                        !.web = SetsTicWeb(web),
                                        !.connected = connected,
                                        !.restart = Restarts(web)]
        /\ \E r \in {loopResult(tic_l, tic_w, d, web, portal, newcfg,
                                 connected, recv, universe, length, sequence,
                                 p)} :
            \* a difference starts over before loop() returns, or not now
            /\ lead_w <= r.millis - millis
            /\ lead_l <= r.millis - millis
            /\ global' = r.global
            /\ uart_frame' = r.uart_frame
            /\ i2s_frame' = r.i2s_frame
            /\ millis' = LiveBase + (r.millis % LiveSlot)
            /\ tic_loop' = millis'
                   - Stored(Elapsed(r.millis,
                                    IF r.sched.uart > 0 THEN r.tic_loop
                                    ELSE StampSeen(r.tic_loop, lead_l,
                                                   r.millis)),
                            LiveLoopCap)
            /\ tic_web' = millis'
                   - Stored(Elapsed(r.millis,
                                    StampSeen(r.tic_web, lead_w, r.millis)),
                            LiveWebCap)
            /\ UNCHANGED <<call, fired, npackets, nloops, nweb, dma, flip>>

NextLive ==
    \/ \E slots \in LiveSlots, web \in WebRequests, connected \in BOOLEAN,
          recv \in BOOLEAN, len \in LoopLengths :
           \E portal \in PortalsOf(web), newcfg \in ConfigsOf(web, LiveConfigs),
              w_l \in WrapsOf(Elapsed(millis, tic_loop), LiveLoopCap),
              w_w \in WrapsOf(Elapsed(millis, tic_web), LiveWebCap) :
               loopLive(w_l, w_w, slots, web, portal, newcfg, connected, recv,
                        config.universe, len, 7, 1)
    \/ Restart

\* the Arduino core calls loop() again whenever it has returned
SpecLive == Init /\ [][NextLive]_vars /\ WF_vars(NextLive)

----------------------------------------------------------------------------
(* flipByte applied to every byte value *)

InitFlip ==
    /\ config \in LoopConfigs
    /\ millis = 5000
    /\ flip \in [c : Byte, r : Byte, n : {0}]
    /\ flip.r = flip.c
    /\ InitCommon

\* c = flipByte(c)
ApplyFlip ==
    /\ flip.n < MaxFlips
    /\ flip' = [flip EXCEPT !.r = flipByte(@), !.n = @ + 1]
    /\ UNCHANGED <<config, global, uart_frame, i2s_frame, call, millis,
                   tic_loop, tic_web, sched, fired, npackets, nloops, nweb,
                   dma>>

NextFlip == ApplyFlip

SpecFlip == InitFlip /\ [][NextFlip]_vars

----------------------------------------------------------------------------
(* Properties *)

\* the last onDmxPacket call passed the universe filter
Accepted == call.op = "onDmxPacket" /\ call.universe = config.universe

\* the payload of the last onDmxPacket call
CallData == PacketData(call.pattern, call.length)

\* the step is a call of onDmxPacket
PacketStep == npackets' = npackets + 1

\* C1: a call of onDmxPacket whose universe is not config.universe leaves
\* global.universe, global.sequence, global.length, global.data and
\* global.i2s_data exactly as they were, from every reachable state.
C1_UniverseFilter ==
    [][(PacketStep /\ call'.universe # config.universe) => global' = global]_vars

\* a packet of another universe arrived after an accepted one had changed the
\* buffer
C1_Witness ==
    /\ call.op = "onDmxPacket"
    /\ call.universe # config.universe
    /\ call.length = 512
    /\ npackets = 2
    /\ global.length = 3
    /\ global.data[0] = 1

\* C2: once onDmxPacket has accepted a frame with length L in 0..512 and data
\* D, the next outputSerial emits the break, the start code 0 and exactly
\* D[0], ..., D[min(L, config.channels) - 1].
C2_EndToEndUart ==
    (Accepted /\ call.length <= 512 /\ call.emitted)
        => uart_frame = <<BREAK, 0>> \o
              [k \in 1..MIN(call.length, config.channels) |-> CallData[k - 1]]

\* C3: every outputSerial performs one break, one write of the start code 0
\* and then exactly min(global.length, config.channels) writes of
\* global.data[i] in increasing index order: global.length bytes when
\* global.length <= config.channels, config.channels bytes otherwise.
C3_UartFrameStructure ==
    call.emitted =>
        /\ Len(uart_frame) >= 2
        /\ uart_frame[1] = BREAK
        /\ uart_frame[2] = 0
        /\ Len(uart_frame) - 2 =
              (IF global.length <= config.channels THEN global.length
               ELSE config.channels)
        /\ \A k \in 3..Len(uart_frame) : uart_frame[k] = global.data[k - 3]

\* outputSerial ran with three valid channels of which two are configured
C3_Witness ==
    /\ call.emitted
    /\ global.length = 3
    /\ config.channels = 2
    /\ uart_frame = <<BREAK, 0, 1, 2>>

\* C4: after onDmxPacket accepts a frame with length L and data D, the symbol
\* of every channel i in 0..511, dmx_bytes[i+1], has high byte flipByte(D[i])
\* when i < L and 0 when i >= L, and low byte 0xFE except for i = 511, whose
\* low byte is 0xFF; outputI2S queues all of them.
C4_DmaFrameContents ==
    Accepted =>
        /\ \A i \in 0..511 :
              LET w == global.i2s_data.dmx_bytes[i + 1]
              IN  /\ HiByte(w) = (IF i < call.length
                                  THEN flipByteTable[CallData[i]] ELSE 0)
                  /\ LoByte(w) = (IF i = 511 THEN 255 ELSE 254)
        /\ DOMAIN outputI2SFrame(global).dmx_bytes = 0..512

\* a three channel frame was accepted after a longer one: symbol 1 is 0x80FE
\* and the symbols beyond the frame carry 0
C4_Witness ==
    /\ Accepted
    /\ call.length = 3
    /\ call.pattern = 1
    /\ npackets = 2
    /\ global.data[3] # 0
    /\ global.i2s_data.dmx_bytes[1] = 33022
    /\ global.i2s_data.dmx_bytes[4] = 254

\* bit i of b
Bit(b, i) == (b \div (2 ^ i)) % 2

RECURSIVE ReverseFrom(_, _)
ReverseFrom(b, i) ==
    IF i > 7 THEN 0 ELSE Bit(b, i) * (2 ^ (7 - i)) + ReverseFrom(b, i + 1)

\* the byte whose bit i is bit 7 - i of b
ReverseBits(b) == ReverseFrom(b, 0)

\* C5: flipByte(b) is the byte whose bit i is bit 7 - i of b, for every byte
\* b; applying it twice gives b back, and flipByte(0x80) = 0x01.
C5_BitReversal ==
    /\ flip.r \in Byte
    /\ (flip.n % 2 = 1) => flip.r = ReverseBits(flip.c)
    /\ (flip.n % 2 = 0) => flip.r = flip.c
    /\ (flip.c = 128 /\ flip.n = 1) => flip.r = 1

\* flipByte was applied twice to a byte that is not its own mirror image
C5_Witness ==
    /\ flip.c = 77
    /\ flip.n = 2
    /\ flip.r = 77
    /\ flipByte(77) = 178

\* C6: after initI2S and any number of onDmxPacket calls and outputI2S ticks,
\* mark_before_break is all 0xFFFF, mark_after_break is 0b1110, dmx_bytes[0]
\* is 0x00FE, every dmx_bytes[k] with k in 0..511 has low byte 0xFE and
\* dmx_bytes[512] has low byte 0xFF.
C6_FramingStable ==
    LET f == global.i2s_data
    IN  /\ \A i \in DOMAIN f.mark_before_break : f.mark_before_break[i] = 65535
        /\ f.mark_after_break = 14
        /\ f.dmx_bytes[0] = 254
        /\ \A k \in 0..511 : LoByte(f.dmx_bytes[k]) = 254
        /\ LoByte(f.dmx_bytes[512]) = 255

\* two frames were accepted, the last one with three channels
C6_Witness ==
    /\ Accepted
    /\ npackets = 2
    /\ call.length = 3
    /\ global.i2s_data.dmx_bytes[3] # 254
    /\ global.i2s_data # initI2S

\* C7: one loop() invocation calls each transport at most once, two
\* consecutive ticks are at least config.delay ms of millis() apart, and two
\* loop() invocations less than config.delay apart fire at most one tick.
C7_RateLimit ==
    /\ sched.uart <= 1
    /\ sched.i2s <= 1
    /\ Len(fired) = 2 => Elapsed(fired[2], fired[1]) >= config.delay
    /\ (nloops >= 2 /\ sched.since_prev < config.delay)
          => sched.prev_uart + sched.uart <= 1

\* two ticks were fired, and the loop() invocation 10 ms after the second
\* one fired none
C7_Witness ==
    /\ Len(fired) = 2
    /\ nloops = 3
    /\ sched.since_prev = 10
    /\ sched.prev_uart = 1
    /\ sched.uart = 0
    /\ sched.gate_open

\* C8 as stated: whenever the time elapsed since the last fire is at least
\* config.delay, the loop() invocation fires exactly one tick of each
\* transport.
C8_FiresWhenElapsed ==
    (nloops > 0 /\ sched.elapsed >= config.delay)
        => (sched.uart = 1 /\ sched.i2s = 1)

\* C8 amended: a loop() invocation fires exactly one tick of each transport
\* when the web gate is open (at least 5000 ms since tic_web) and the time
\* elapsed since the last fire is strictly greater than config.delay; it
\* fires none when the gate is closed or the elapsed time is at most
\* config.delay.
C8_FiresWhenDueAndOpen ==
    nloops > 0 =>
        IF sched.gate_open /\ sched.elapsed > config.delay
        THEN sched.uart = 1 /\ sched.i2s = 1
        ELSE sched.uart = 0 /\ sched.i2s = 0

\* the gate was open, 5000 ms had elapsed and one tick of each was fired
C8_Witness ==
    /\ nloops > 0
    /\ sched.gate_open
    /\ sched.elapsed > 2 * config.delay
    /\ sched.uart = 1
    /\ sched.i2s = 1

\* C9: calling onDmxPacket a second time with the same arguments leaves the
\* buffers as the first call left them, so the frames the next outputSerial
\* and outputI2S emit are the same.
C9_Idempotent ==
    [][(PacketStep /\ call'.repeat)
          => /\ global' = global
             /\ outputSerialFrame(global', config') = outputSerialFrame(global, config)
             /\ outputI2SFrame(global') = outputI2SFrame(global)]_vars

\* an accepted three channel frame was repeated
C9_Witness ==
    /\ Accepted
    /\ call.repeat
    /\ call.length = 3
    /\ npackets = 2
    /\ global.length = 3

\* C10: a call of onDmxPacket with length > 512 leaves global.universe,
\* global.sequence, global.length, global.data and global.i2s_data unchanged,
\* also when its universe is config.universe.
C10_OversizedDropped ==
    [][(PacketStep /\ call'.length > 512) => global' = global]_vars

----------------------------------------------------------------------------
\* C11: no handler touches an I2S buffer whose transfer is still in flight:
\* onDmxPacket never writes global.i2s_data, and outputI2S never queues a
\* new transfer, while a queued transfer has not completed.
C11_NoOverwriteInFlight == dma.hazard = "none"

----------------------------------------------------------------------------
\* C12: global.length is at most 512 in every state reachable from setup()
\* by calls of onDmxPacket with any length, lengths above 512 included, and
\* by ticks of the transports.
C12_LengthBound == global.length <= 512

\* a packet of 513 channels was accepted after the length had been lowered
C12_Witness ==
    /\ Accepted
    /\ call.length = 513
    /\ call.prev_length = 3
    /\ global.length = 3
    /\ global.sequence = call.sequence

----------------------------------------------------------------------------
\* C13 as stated: every call of onDmxPacket leaves global.length equal to or
\* lower than its previous value.
C13_LengthNeverRaised ==
    [][PacketStep => global'.length <= global.length]_vars

\* C13, amended: global.length starts at 512; an accepted call of onDmxPacket
\* with length below 512 sets it to that length, whether lower or higher than
\* before; every other call leaves it as it was.
C13_LengthFollowsShortPackets ==
    /\ (npackets = 0 => global.length = 512)
    /\ [][PacketStep =>
            global'.length =
                IF call'.universe = config.universe /\ call'.length < 512
                THEN call'.length
                ELSE global.length]_vars

\* an accepted packet raised the length from 0 to 3
C13_Witness ==
    /\ Accepted
    /\ call.prev_length = 0
    /\ call.length = 3
    /\ global.length = 3

----------------------------------------------------------------------------
\* C15: once global.length is below 512 it stays below 512; an accepted frame
\* of 512 channels or more then leaves global.length as it was, copies only
\* the first global.length bytes into global.data, and the frames outputSerial
\* sends afterwards carry fewer than 512 channels.
C15_LengthNeverRestored ==
    /\ [][global.length < 512 =>
            /\ global'.length < 512
            /\ (PacketStep /\ call'.universe = config.universe
                    /\ call'.length >= 512) =>
                  /\ global'.length = global.length
                  /\ \A i \in 0..511 :
                        global'.data[i] =
                            IF i < global.length
                            THEN PacketData(call'.pattern, call'.length)[i]
                            ELSE global.data[i]]_vars
    /\ []((global.length < 512 /\ call.emitted)
            => Len(uart_frame) - 2 < 512)

\* a full frame was accepted after a frame of 3 channels, and sent: only its
\* first three bytes arrived, on a port configured for all 512
C15_Witness ==
    /\ Accepted
    /\ call.length = 512
    /\ call.pattern = 2
    /\ call.prev_length = 3
    /\ global.length = 3
    /\ global.data[2] = 138
    /\ global.data[3] = 0
    /\ call.emitted
    /\ config.channels = 512
    /\ Len(uart_frame) = 5

----------------------------------------------------------------------------
\* the channel bytes of the last UART frame, after the break and start code
UartData == SubSeq(uart_frame, 3, Len(uart_frame))

\* C17: under every interleaving of packets and ticks the channel bytes of
\* an emitted UART frame all come from one packet, the most recent accepted
\* one, at the positions they had in it, and their number is
\* min(global.length, config.channels); before any packet was accepted they
\* are all the initial zeros.
C17_NoTornFrames ==
    call.emitted =>
        /\ Len(UartData) = MIN(global.length, config.channels)
        /\ IF call.acc_pattern = 0
           THEN \A k \in 1..Len(UartData) : UartData[k] = 0
           ELSE /\ Len(UartData) <= call.acc_length
                /\ \A k \in 1..Len(UartData) :
                      UartData[k] =
                          PacketData(call.acc_pattern, call.acc_length)[k - 1]

\* a frame sent after two accepted packets with different payloads and
\* lengths: all three bytes are the second packet's
C17_Witness ==
    /\ call.emitted
    /\ Accepted
    /\ npackets = 2
    /\ call.pattern = 2
    /\ call.length = 512
    /\ call.prev_length = 3
    /\ global.sequence = 7
    /\ config.channels = 3
    /\ UartData = <<128, 133, 138>>

----------------------------------------------------------------------------
\* C20: in every reachable state, for every channel i below
\* min(global.length, config.channels), the channels outputSerial would send,
\* global.data[i] is the bit reversal of the high byte of the DMA symbol
\* global.i2s_data.dmx_bytes[i + 1].
C20_TransportsAgree ==
    \A i \in 0..(MIN(global.length, config.channels) - 1) :
        global.data[i] = flipByteTable[HiByte(global.i2s_data.dmx_bytes[i + 1])]

\* a full frame accepted after a frame of 3 channels: the first three channels
\* agree (138 is 81 reversed), the fourth, which the UART does not send,
\* differs
C20_Witness ==
    /\ Accepted
    /\ call.length = 512
    /\ call.pattern = 2
    /\ global.length = 3
    /\ config.channels = 512
    /\ global.data[2] = 138
    /\ HiByte(global.i2s_data.dmx_bytes[3]) = 81
    /\ global.data[3] = 0
    /\ HiByte(global.i2s_data.dmx_bytes[4]) # 0

----------------------------------------------------------------------------
\* the step is one invocation of loop()
LoopStep == nloops' = nloops + 1

\* C16 as stated: when the scheduler fires, tic_loop is updated after the
\* transports of that tick have been invoked, so that it holds the time at
\* which the tick's transport work ended.
C16_StampAfterTransports ==
    sched.uart = 1 => tic_loop = sched.tick_end

\* C16, amended: when the scheduler fires, tic_loop is set to the time at
\* which the tick starts, before the transports are invoked; the time the
\* transports take is part of the delay to the next tick.
C16_StampBeforeTransports ==
    Len(fired) > 0 =>
        /\ tic_loop = sched.tick_start
        /\ tic_loop = fired[Len(fired)]
        /\ sched.tick_end >= sched.tick_start

\* a tick whose transports took 22 ms, followed by the next tick 32 ms after
\* its start, 10 ms after its end
C16_Witness ==
    /\ Len(fired) = 2
    /\ fired[2] - fired[1] = 32
    /\ sched.uart = 1
    /\ sched.since_prev = 32
    /\ sched.tick_end = sched.tick_start + 22

----------------------------------------------------------------------------
\* C18: outputSerial and outputI2S leave global.universe, global.sequence,
\* global.length, global.data and global.i2s_data unchanged: an invocation of
\* loop() without a packet leaves global as it was, one with a packet leaves
\* it as onDmxPacket made it; two ticks with no packet between them, the
\* second under the config.channels of the first, emit the same frame on each
\* transport.
C18_LastFramePersists ==
    [][LoopStep =>
        /\ (npackets' = npackets) => global' = global
        /\ PacketStep =>
              global' = onDmxPacket(global, config, call'.universe,
                                    call'.length, call'.sequence,
                                    PacketData(call'.pattern, call'.length))
        /\ (npackets' = npackets /\ call.emitted /\ sched'.uart = 1
               /\ config'.channels = sched.tick_channels) =>
              /\ uart_frame' = uart_frame
              /\ i2s_frame' = i2s_frame]_vars

\* two ticks in a row after an accepted packet of 3 channels, the second
\* without a packet
C18_Witness ==
    /\ Len(fired) = 2
    /\ npackets = 1
    /\ sched.uart = 1
    /\ sched.prev_uart = 1
    /\ ~sched.recv
    /\ call.emitted
    /\ UartData = <<1, 2, 3>>
    /\ HiByte(i2s_frame.dmx_bytes[1]) = 128

----------------------------------------------------------------------------
\* C19: an invocation of loop() in which fewer than 5000 ms have passed since
\* tic_web calls neither artnet.read() nor a transport and leaves tic_loop,
\* global and the emitted frames as they were; tic_web is 0 after setup(), so
\* as long as no invocation has reached its gate at a millis() of 5000 or more
\* since setup(), no packet has been accepted and no frame emitted.
C19_WebGate ==
    /\ [][(LoopStep /\ Elapsed(sched'.at, tic_web') < WEB_GATE) =>
            /\ sched'.read = 0
            /\ sched'.uart = 0
            /\ sched'.i2s = 0
            /\ npackets' = npackets
            /\ tic_loop' = tic_loop
            /\ global' = global
            /\ uart_frame' = uart_frame
            /\ i2s_frame' = i2s_frame
            /\ fired' = fired]_vars
    /\ [](sched.at < WEB_GATE =>
            /\ global = setup_global
            /\ call = NoCall
            /\ uart_frame = <<>>
            /\ fired = <<>>)

\* a web request closed the gate after a tick, at a time when the next tick
\* was due
C19_Witness ==
    /\ sched.web
    /\ Elapsed(sched.at, tic_web) < WEB_GATE
    /\ sched.at >= WEB_GATE
    /\ sched.elapsed > config.delay
    /\ sched.prev_uart = 1
    /\ sched.uart = 0
    /\ Len(fired) = 1

----------------------------------------------------------------------------
\* C14: when loop() is invoked for ever, millis() advancing between the
\* invocations, and from some time on no web request arrives, ticks of the
\* transports occur again and again, whatever packets arrive, whether or
\* not WiFi is connected and although the gate closes for 5000 ms each time
\* millis() passes tic_web again.
C14_TicksForEver ==
    <>[](~sched.web) => []<>(sched.uart = 1 /\ sched.i2s = 1)

\* a tick in an invocation that found WiFi disconnected, before any packet
\* was received, after a request had raised config.delay
C14_Witness ==
    /\ global = setup_global
    /\ ~sched.connected
    /\ ~sched.web
    /\ sched.gate_open
    /\ sched.uart = 1
    /\ sched.i2s = 1
    /\ config.delay = LiveMaxDelay
    /\ millis >= LiveBase

----------------------------------------------------------------------------
\* C21: every accepted call of onDmxPacket reads the incoming data only at
\* indices below the call's length, in the I2S loop and in the copy loop,
\* writes global.data only at indices below 512 and dmx_bytes only at indices
\* 1..512; outputSerial reads global.data only at indices below 512, whatever
\* config.channels is.
C21_InBounds ==
    /\ Accepted =>
          /\ call.access.i2s_read_last < call.length
          /\ call.access.copy_read_last < call.length
          /\ call.access.data_write_last < 512
          /\ call.access.data_write_last \in DOMAIN global.data \cup {0 - 1}
          /\ call.access.dmx_write_first >= 1
          /\ call.access.dmx_write_last <= 512
          /\ call.access.dmx_write_last \in DOMAIN global.i2s_data.dmx_bytes
    /\ call.serial_read_last < 512
    /\ call.serial_read_last \in DOMAIN global.data \cup {0 - 1}

\* a packet of 513 channels accepted while global.length was still 512: both
\* loops stop at index 511; the frame then sent on a port configured for 600
\* channels stops at index 511 too
C21_Witness ==
    /\ Accepted
    /\ call.length = 513
    /\ call.prev_length = 512
    /\ call.access.i2s_read_last = 511
    /\ call.access.copy_read_last = 511
    /\ call.access.dmx_write_last = 512
    /\ config.channels = 600
    /\ call.emitted
    /\ call.serial_read_last = 511
    /\ Len(uart_frame) = 514

====
